---------------------------- MODULE Spec2Model ----------------------------
(***************************************************************************)
(* A model of TorchNet/OpticalFlow.py: the padding adapter Pad67to68, the  *)
(* coarse and fine flow estimators, the Warp operator and the FlowField    *)
(* composer.                                                               *)
(*                                                                         *)
(* Tensors are 4-dimensional, indexed from 0 as in the source, and hold    *)
(* fixed-point numbers: the integer v stands for the real v / Scale.  A    *)
(* tensor operation of the library that raises (a shape or channel         *)
(* mismatch) yields a failed tensor that names the place of the failure,   *)
(* and every later operation passes a failed operand on unchanged, as an   *)
(* exception unwinds the rest of forward().                                *)
(***************************************************************************)
EXTENDS Integers, Sequences, FiniteSets, TLC

\* ------------------------------------------------------------- bounds
MaxN == 1          \* batch sizes 1..MaxN
MaxC == 2          \* frame channels 1..MaxC
MaxH == 8          \* frame heights 1..MaxH
MaxW == 5          \* frame widths 1..MaxW
MaxGain == 1       \* kernel tap values 0..MaxGain

\* Fixed point: the integer v stands for v / Scale.
Scale == 2

\* ------------------------------------------------------------ tensors
Idx(shape) ==
    (0 .. shape[1] - 1) \X (0 .. shape[2] - 1) \X (0 .. shape[3] - 1) \X (0 .. shape[4] - 1)

NoData == [i \in {} |-> 0]

\* The tensor of the given shape with the given elements (a function on
\* Idx(shape)).
Tensor(shape, data) ==
    [ok |-> TRUE, at |-> "", shape |-> shape, data |-> data]

\* The outcome of an operation that raised at the place `at`.
Failed(at) ==
    [ok |-> FALSE, at |-> at, shape |-> <<0, 0, 0, 0>>, data |-> NoData]

\* The value never computed (a local of forward() not yet assigned).
Unset == Failed("unset")

\* Element (n, c, i, j) of x, and 0 outside the spatial bounds (zero padding).
Px(x, n, c, i, j) ==
    IF i >= 0 /\ i < x.shape[3] /\ j >= 0 /\ j < x.shape[4]
    THEN x.data[<<n, c, i, j>>]
    ELSE 0

Max2(a, b) == IF a >= b THEN a ELSE b
Min2(a, b) == IF a <= b THEN a ELSE b

\* ---------------------------------------------------- library operations

\* torch.cat([a, b, ...], dim=1): all sizes but the channels must agree.
RECURSIVE ChannelsBefore(_, _)
ChannelsBefore(ts, k) ==
    IF k = 0 THEN 0 ELSE ChannelsBefore(ts, k - 1) + ts[k].shape[2]

\* The position in ts of the tensor that holds channel c of the concatenation.
RECURSIVE CatPart(_, _, _)
CatPart(ts, c, k) ==
    IF c < ChannelsBefore(ts, k) THEN k ELSE CatPart(ts, c, k + 1)

Cat(ts, at) ==
    IF \E k \in 1 .. Len(ts) : ~ts[k].ok
    THEN ts[CHOOSE k \in 1 .. Len(ts) : ~ts[k].ok /\ \A m \in 1 .. k - 1 : ts[m].ok]
    ELSE IF \E k \in 2 .. Len(ts) :
                \/ ts[k].shape[1] # ts[1].shape[1]
                \/ ts[k].shape[3] # ts[1].shape[3]
                \/ ts[k].shape[4] # ts[1].shape[4]
    THEN Failed(at)
    ELSE LET shape == <<ts[1].shape[1], ChannelsBefore(ts, Len(ts)),
                        ts[1].shape[3], ts[1].shape[4]>>
         IN  Tensor(shape,
                [idx \in Idx(shape) |->
                    LET k == CatPart(ts, idx[2], 1)
                    IN  ts[k].data[<<idx[1], idx[2] - ChannelsBefore(ts, k - 1), idx[3], idx[4]>>]])

\* The weights of nn.Conv2d(cin, cout, k, stride=s, padding=p).  The kernel
\* of output channel o is given by its non-zero taps <<input channel, dy, dx,
\* value>>; the learned weights modelled are those with one tap of value g at
\* the kernel's centre, on input channel o mod cin, and the biases b[o].
Conv2d(cin, cout, k, s, p, g, b) ==
    [cin |-> cin, cout |-> cout, k |-> k, s |-> s, p |-> p,
     taps |-> [o \in 0 .. cout - 1 |-> << <<o % cin, (k - 1) \div 2, (k - 1) \div 2, g>> >>],
     bias |-> [o \in 0 .. cout - 1 |-> b[o]]]

\* ConvOut with the padding forgotten.
ConvOut_NoPadding(size, k, s, p) == ((size - k) \div s) + 1

\* Output size of a convolution along one axis.
ConvOut(size, k, s, p) == ((size + 2 * p - k) \div s) + 1

RECURSIVE SumTaps(_, _, _, _, _, _, _)
SumTaps(x, L, taps, n, i, j, m) ==
    IF m = 0 THEN 0
    ELSE LET t == taps[m]
         IN  t[4] * Px(x, n, t[1], L.s * i - L.p + t[2], L.s * j - L.p + t[3])
             + SumTaps(x, L, taps, n, i, j, m - 1)

\* conv(x): fails when x has not the channels the layer was built for.
ConvForward(L, x, at) ==
    IF ~x.ok THEN x
    ELSE IF x.shape[2] # L.cin
            \/ x.shape[3] + 2 * L.p < L.k \/ x.shape[4] + 2 * L.p < L.k
    THEN Failed(at)
    ELSE LET shape == <<x.shape[1], L.cout,
                        ConvOut(x.shape[3], L.k, L.s, L.p), ConvOut(x.shape[4], L.k, L.s, L.p)>>
         IN  Tensor(shape,
                [idx \in Idx(shape) |->
                    L.bias[idx[2]]
                    + SumTaps(x, L, L.taps[idx[2]], idx[1], idx[3], idx[4],
                              Len(L.taps[idx[2]]))])

\* F.relu
ReluScalar(v) == Max2(v, 0)

Relu(x) ==
    IF ~x.ok THEN x ELSE Tensor(x.shape, [idx \in Idx(x.shape) |-> ReluScalar(x.data[idx])])

\* TanhNat without its bound: tanh(x) taken for x.
TanhNat_Unbounded(v) == v

\* F.tanh in fixed point, for v >= 0: tanh(x) by its Pade approximant
\* x (27 + x^2) / (27 + 9 x^2) at x = v / Scale, rounded to the nearest
\* fixed-point number.  The approximant reaches 1 at x = 3; tanh is bounded
\* by 1, and from there on the result is Scale.
TanhNat(v) ==
    IF v >= 3 * Scale THEN Scale
    ELSE Min2(Scale,
              (2 * v * (27 * Scale * Scale + v * v) + (27 * Scale * Scale + 9 * v * v))
                  \div (2 * (27 * Scale * Scale + 9 * v * v)))

\* tanh is odd.
TanhScalar(v) == IF v >= 0 THEN TanhNat(v) ELSE -TanhNat(-v)

\* Tanh left out: the last convolution's output as it is.
Tanh_Missing(x) == x

Tanh(x) ==
    IF ~x.ok THEN x ELSE Tensor(x.shape, [idx \in Idx(x.shape) |-> TanhScalar(x.data[idx])])

\* nn.PixelShuffle(r): (N, C*r*r, H, W) -> (N, C, H*r, W*r).
PixelShuffle(r, x, at) ==
    IF ~x.ok THEN x
    ELSE IF x.shape[2] % (r * r) # 0 THEN Failed(at)
    ELSE LET shape == <<x.shape[1], x.shape[2] \div (r * r), x.shape[3] * r, x.shape[4] * r>>
         IN  Tensor(shape,
                [idx \in Idx(shape) |->
                    x.data[<<idx[1],
                             idx[2] * r * r + (idx[3] % r) * r + (idx[4] % r),
                             idx[3] \div r,
                             idx[4] \div r>>]])

\* The element of a tensor of the given shape that broadcasting reads for
\* the result's element idx.
BroadcastIdx(shape, idx) ==
    <<IF shape[1] = 1 THEN 0 ELSE idx[1], IF shape[2] = 1 THEN 0 ELSE idx[2],
      IF shape[3] = 1 THEN 0 ELSE idx[3], IF shape[4] = 1 THEN 0 ELSE idx[4]>>

\* a + b with broadcasting: each pair of sizes agrees or one of them is 1.
Add(a, b, at) ==
    IF ~a.ok THEN a
    ELSE IF ~b.ok THEN b
    ELSE IF \E d \in 1 .. 4 : a.shape[d] # b.shape[d] /\ a.shape[d] # 1 /\ b.shape[d] # 1
    THEN Failed(at)
    ELSE LET shape == <<Max2(a.shape[1], b.shape[1]), Max2(a.shape[2], b.shape[2]),
                        Max2(a.shape[3], b.shape[3]), Max2(a.shape[4], b.shape[4])>>
         IN  Tensor(shape,
                [idx \in Idx(shape) |->
                    a.data[BroadcastIdx(a.shape, idx)] + b.data[BroadcastIdx(b.shape, idx)]])

\* x.permute([0, 2, 3, 1]): (N, C, H, W) -> (N, H, W, C).
Permute0231(x) ==
    IF ~x.ok THEN x
    ELSE LET shape == <<x.shape[1], x.shape[3], x.shape[4], x.shape[2]>>
         IN  Tensor(shape,
                [idx \in Idx(shape) |-> x.data[<<idx[1], idx[4], idx[2], idx[3]>>]])

\* The pixel coordinate, in units of 1 / (2 * Scale) pixel, of the normalized
\* coordinate g (fixed point) along an axis of the given size:
\* ((g + 1) / 2) * (size - 1) with align_corners, ((g + 1) * size - 1) / 2
\* without.
Unnormalize(g, size, align) ==
    IF align THEN (g + Scale) * (size - 1) ELSE (g + Scale) * size - Scale

\* Bilinear sample of channel c of image n of x at the grid point (gx, gy),
\* zeros outside the image, rounded to the nearest fixed-point number.
Bilinear(x, n, c, gx, gy, align) ==
    LET D  == 2 * Scale
        X  == Unnormalize(gx, x.shape[4], align)
        Y  == Unnormalize(gy, x.shape[3], align)
        x0 == X \div D
        y0 == Y \div D
        fx == X % D
        fy == Y % D
        s  == (D - fy) * (D - fx) * Px(x, n, c, y0, x0)
              + (D - fy) * fx * Px(x, n, c, y0, x0 + 1)
              + fy * (D - fx) * Px(x, n, c, y0 + 1, x0)
              + fy * fx * Px(x, n, c, y0 + 1, x0 + 1)
    IN  (2 * s + D * D) \div (2 * D * D)

\* GridSample that takes only a grid of the input's own size.
GridSample_SameSize(input, grid, align, at) ==
    IF ~input.ok THEN input
    ELSE IF ~grid.ok THEN grid
    ELSE IF grid.shape[1] # input.shape[1] \/ grid.shape[4] # 2
            \/ grid.shape[2] # input.shape[3] \/ grid.shape[3] # input.shape[4]
    THEN Failed(at)
    ELSE Tensor(input.shape,
            [idx \in Idx(input.shape) |->
                Bilinear(input, idx[1], idx[2],
                         grid.data[<<idx[1], idx[3], idx[4], 0>>],
                         grid.data[<<idx[1], idx[3], idx[4], 1>>],
                         align)])

\* F.grid_sample(input, grid): bilinear, zero padding; grid is (N, OH, OW, 2)
\* with x (width) first, and the result is (N, C, OH, OW).
GridSample(input, grid, align, at) ==
    IF ~input.ok THEN input
    ELSE IF ~grid.ok THEN grid
    ELSE IF grid.shape[1] # input.shape[1] \/ grid.shape[4] # 2
    THEN Failed(at)
    ELSE LET shape == <<input.shape[1], input.shape[2], grid.shape[2], grid.shape[3]>>
         IN  Tensor(shape,
                [idx \in Idx(shape) |->
                    Bilinear(input, idx[1], idx[2],
                             grid.data[<<idx[1], idx[3], idx[4], 0>>],
                             grid.data[<<idx[1], idx[3], idx[4], 1>>],
                             align)])

\* Reflect with the edge repeated (a symmetric padding).
Reflect_Edge(i, size) ==
    IF i < 0 THEN -i - 1 ELSE IF i >= size THEN 2 * size - 1 - i ELSE i

\* The index a reflection padding reads for position i of an axis of the
\* given size: the edge element is the mirror and is not repeated.
Reflect(i, size) ==
    IF i < 0 THEN -i ELSE IF i >= size THEN 2 * (size - 1) - i ELSE i

\* nn.ReflectionPad2d((left, right, top, bottom)): each padding must be
\* smaller than the size of the axis it pads.
ReflectionPad2d(left, right, top, bottom, x, at) ==
    IF ~x.ok THEN x
    ELSE IF left >= x.shape[4] \/ right >= x.shape[4] \/ top >= x.shape[3] \/ bottom >= x.shape[3]
    THEN Failed(at)
    ELSE LET shape == <<x.shape[1], x.shape[2],
                        x.shape[3] + top + bottom, x.shape[4] + left + right>>
         IN  Tensor(shape,
                [idx \in Idx(shape) |->
                    x.data[<<idx[1], idx[2],
                             Reflect(idx[3] - top, x.shape[3]),
                             Reflect(idx[4] - left, x.shape[4])>>]])

\* ------------------------------------------------------------ networks

\* The learned biases modelled: zeros in the first four layers, and in the
\* last layer -1, 0, 1, -1, ... (fixed point) over the output channels.
ZeroBias(cout) == [o \in 0 .. cout - 1 |-> 0]

LastBias(cout) == [o \in 0 .. cout - 1 |-> (o % 3) - 1]

\* _CoarseFlow.__init__(input_channel), with learned kernel taps of value g.
CoarseFlow(input_channel, g) ==
    [channel |-> input_channel,
     conv1 |-> Conv2d(input_channel * 2, 24, 5, 2, 2, g, ZeroBias(24)),
     conv2 |-> Conv2d(24, 24, 3, 1, 1, g, ZeroBias(24)),
     conv3 |-> Conv2d(24, 24, 5, 2, 2, g, ZeroBias(24)),
     conv4 |-> Conv2d(24, 24, 3, 1, 1, g, ZeroBias(24)),
     conv5 |-> Conv2d(24, 32, 3, 1, 1, g, LastBias(32)),
     pix |-> 4]

\* The five convolutions both estimators apply to their concatenated input:
\* ReLU after the first four, tanh after the fifth.
ConvStack(net, input, name) ==
    Tanh(ConvForward(net.conv5,
        Relu(ConvForward(net.conv4,
            Relu(ConvForward(net.conv3,
                Relu(ConvForward(net.conv2,
                    Relu(ConvForward(net.conv1, input, name \o ".conv1")),
                    name \o ".conv2")),
                name \o ".conv3")),
            name \o ".conv4")),
        name \o ".conv5"))

\* _CoarseFlow.forward(frame_t, frame_tp1)
CoarseFlow_forward(net, frame_t, frame_tp1) ==
    LET input == Cat(<<frame_t, frame_tp1>>, "coarse.cat")
    IN  PixelShuffle(net.pix, ConvStack(net, input, "coarse"), "coarse.pix")

\* _FineFlow.__init__(input_channel), with learned kernel taps of value g.
FineFlow(input_channel, g) ==
    [channel |-> input_channel,
     conv1 |-> Conv2d(input_channel * 3 + 2, 24, 5, 2, 2, g, ZeroBias(24)),
     conv2 |-> Conv2d(24, 24, 3, 1, 1, g, ZeroBias(24)),
     conv3 |-> Conv2d(24, 24, 3, 1, 1, g, ZeroBias(24)),
     conv4 |-> Conv2d(24, 24, 3, 1, 1, g, ZeroBias(24)),
     conv5 |-> Conv2d(24, 8, 3, 1, 1, g, LastBias(8)),
     pix |-> 2]

\* FineFlow_forward without the pixel shuffle.
FineFlow_forward_NoShuffle(net, frame_t, frame_tp1, flow, coarse_frame_tp1) ==
    ConvStack(net, Cat(<<frame_t, frame_tp1, flow, coarse_frame_tp1>>, "fine.cat"), "fine")

\* _FineFlow.forward(frame_t, frame_tp1, flow, coarse_frame_tp1)
FineFlow_forward(net, frame_t, frame_tp1, flow, coarse_frame_tp1) ==
    LET input == Cat(<<frame_t, frame_tp1, flow, coarse_frame_tp1>>, "fine.cat")
    IN  PixelShuffle(net.pix, ConvStack(net, input, "fine"), "fine.pix")

\* Warp.forward(frame_t, flow_field)
Warp_forward(frame_t, flow_field, align) ==
    GridSample(frame_t, Permute0231(flow_field), align, "warp.grid_sample")

\* Pad67to68_forward with the row added at the top.
Pad67to68_forward_Top(input) ==
    ReflectionPad2d(0, 0, 1, 0, input, "pad")

\* Pad67to68.forward(input), with self.pad = nn.ReflectionPad2d((0, 0, 0, 1))
Pad67to68_forward(input) ==
    ReflectionPad2d(0, 0, 0, 1, input, "pad")

\* -------------------------------------------------------------- inputs

Shapes(maxC) == (1 .. MaxN) \X (1 .. maxC) \X (1 .. MaxH) \X (1 .. MaxW)

\* The frames the runs are given: a ramp (all elements distinct) and a flat
\* image.
Patterns == {"ramp", "flat"}

Frame(shape, pat) ==
    Tensor(shape,
        [idx \in Idx(shape) |->
            IF pat = "ramp"
            THEN ((idx[1] * shape[2] + idx[2]) * shape[3] + idx[3]) * shape[4] + idx[4]
            ELSE 1])

\* The flow field whose every x is gx and every y is gy.
ConstFlow(n, h, w, gx, gy) ==
    Tensor(<<n, 2, h, w>>,
        [idx \in Idx(<<n, 2, h, w>>) |-> IF idx[2] = 0 THEN gx ELSE gy])

\* The learned kernel tap values the runs are given.
Gains == 0 .. MaxGain

\* --------------------------------------------------------------- state

VARIABLES
    pc,                \* where the call is: "call", the composer's steps, "return", "raise"
    args,              \* the arguments of the call, a sequence of tensors
    ret,               \* the returned tensor (a failed one when the call raised)
    coarse_net,        \* FlowField.coarse_net
    fine_net,          \* FlowField.fine_net, or the _FineFlow called on its own
    align_corners,     \* the library build's grid_sample convention
    coarse_flow,       \* forward()'s local coarse_flow
    coarse_frame_tp1,  \* forward()'s local coarse_frame_tp1
    fine_flow,         \* the value of self.fine_net(...) in the return expression
    calls              \* the modules called so far, with their arguments

vars == <<pc, args, ret, coarse_net, fine_net, align_corners,
          coarse_flow, coarse_frame_tp1, fine_flow, calls>>

NoNet == [channel |-> 0]

NoLocals ==
    /\ coarse_flow = Unset
    /\ coarse_frame_tp1 = Unset
    /\ fine_flow = Unset
    /\ calls = <<>>

\* ------------------------------------------------- FlowField (composer)

\* FlowField.__init__() and a call forward(frame_t, frame_tp1) with two
\* frames of one shape.
InitFlow ==
    /\ pc = "call"
    /\ \E shape \in Shapes(MaxC), pat \in Patterns :
           args = <<Frame(shape, "ramp"), Frame(shape, pat)>>
    /\ ret = Unset
    /\ \E g \in Gains : coarse_net = CoarseFlow(1, g)
    /\ \E g \in Gains : fine_net = FineFlow(1, g)
    /\ align_corners \in BOOLEAN
    /\ NoLocals

Step(from, value, to) ==
    /\ pc = from
    /\ pc' = IF value.ok THEN to ELSE "raise"
    /\ ret' = IF value.ok THEN ret ELSE value

\* coarse_flow = self.coarse_net(frame_t, frame_tp1)
CallCoarseNet ==
    LET value == CoarseFlow_forward(coarse_net, args[1], args[2])
    IN  /\ Step("call", value, "coarse")
        /\ coarse_flow' = value
        /\ calls' = Append(calls, [op |-> "coarse_net", args |-> <<args[1], args[2]>>])
        /\ UNCHANGED <<args, coarse_net, fine_net, align_corners, coarse_frame_tp1, fine_flow>>

\* CallWarp on the second frame instead of the first.
CallWarp_NextFrame ==
    LET value == Warp_forward(args[2], coarse_flow, align_corners)
    IN  /\ Step("coarse", value, "warp")
        /\ coarse_frame_tp1' = value
        /\ calls' = Append(calls, [op |-> "warp", args |-> <<args[2], coarse_flow>>])
        /\ UNCHANGED <<args, coarse_net, fine_net, align_corners, coarse_flow, fine_flow>>

\* coarse_frame_tp1 = self.warp(frame_t, coarse_flow)
CallWarp ==
    LET value == Warp_forward(args[1], coarse_flow, align_corners)
    IN  /\ Step("coarse", value, "warp")
        /\ coarse_frame_tp1' = value
        /\ calls' = Append(calls, [op |-> "warp", args |-> <<args[1], coarse_flow>>])
        /\ UNCHANGED <<args, coarse_net, fine_net, align_corners, coarse_flow, fine_flow>>

\* self.fine_net(frame_t, frame_tp1, coarse_flow, coarse_frame_tp1)
CallFineNet ==
    LET value == FineFlow_forward(fine_net, args[1], args[2], coarse_flow, coarse_frame_tp1)
    IN  /\ Step("warp", value, "fine")
        /\ fine_flow' = value
        /\ calls' = Append(calls, [op |-> "fine_net",
                                   args |-> <<args[1], args[2], coarse_flow, coarse_frame_tp1>>])
        /\ UNCHANGED <<args, coarse_net, fine_net, align_corners, coarse_flow, coarse_frame_tp1>>

\* ReturnSum without the residual: the fine flow alone is returned.
ReturnSum_FineOnly ==
    /\ pc = "fine"
    /\ pc' = "return"
    /\ ret' = fine_flow
    /\ calls' = Append(calls, [op |-> "add", args |-> <<fine_flow, coarse_flow>>])
    /\ UNCHANGED <<args, coarse_net, fine_net, align_corners,
                   coarse_flow, coarse_frame_tp1, fine_flow>>

\* return <fine flow> + coarse_flow
ReturnSum ==
    LET value == Add(fine_flow, coarse_flow, "add")
    IN  /\ pc = "fine"
        /\ pc' = IF value.ok THEN "return" ELSE "raise"
        /\ ret' = value
        /\ calls' = Append(calls, [op |-> "add", args |-> <<fine_flow, coarse_flow>>])
        /\ UNCHANGED <<args, coarse_net, fine_net, align_corners,
                       coarse_flow, coarse_frame_tp1, fine_flow>>

NextFlow == CallCoarseNet \/ CallWarp \/ CallFineNet \/ ReturnSum

SpecFlow == InitFlow /\ [][NextFlow]_vars

\* The state outside a run of the composer.
NoComposer ==
    /\ coarse_net = NoNet
    /\ NoLocals

\* A call of one module on its own returns or raises in one step.
Return(value) ==
    /\ pc = "call"
    /\ pc' = IF value.ok THEN "return" ELSE "raise"
    /\ ret' = value
    /\ UNCHANGED <<args, coarse_net, fine_net, align_corners,
                   coarse_flow, coarse_frame_tp1, fine_flow, calls>>

\* ------------------------------------------------------------ Pad67to68

\* Pad67to68() and a call forward(input).
InitPad ==
    /\ pc = "call"
    /\ \E shape \in Shapes(MaxC), pat \in Patterns : args = <<Frame(shape, pat)>>
    /\ ret = Unset
    /\ fine_net = NoNet
    /\ align_corners = FALSE
    /\ NoComposer

PadForward == Return(Pad67to68_forward(args[1]))

NextPad == PadForward

SpecPad == InitPad /\ [][NextPad]_vars

\* ----------------------------------------------------------------- Warp

\* The normalized coordinates the flow fields given to Warp hold: the two
\* edges and the centre.
Coords == {-Scale, 0, Scale}

\* Warp() and a call forward(frame_t, flow_field) with a flow field of the
\* frame's size.
InitWarp ==
    /\ pc = "call"
    /\ \E shape \in Shapes(MaxC), pat \in Patterns, gx \in Coords, gy \in Coords :
           args = <<Frame(shape, pat), ConstFlow(shape[1], shape[3], shape[4], gx, gy)>>
    /\ ret = Unset
    /\ fine_net = NoNet
    /\ align_corners \in BOOLEAN
    /\ NoComposer

WarpForward == Return(Warp_forward(args[1], args[2], align_corners))

NextWarp == WarpForward

SpecWarp == InitWarp /\ [][NextWarp]_vars

\* ------------------------------------------------------------ _FineFlow

\* _FineFlow(input_channel) and a call forward(frame_t, frame_tp1, flow,
\* coarse_frame_tp1) with frames of one shape and a flow field of their size.
InitFine ==
    /\ pc = "call"
    /\ \E shape \in Shapes(MaxC), pat \in Patterns, gx \in {0, Scale} :
           args = <<Frame(shape, "ramp"), Frame(shape, pat),
                    ConstFlow(shape[1], shape[3], shape[4], gx, 0), Frame(shape, pat)>>
    /\ ret = Unset
    /\ \E c \in 1 .. MaxC, g \in Gains : fine_net = FineFlow(c, g)
    /\ align_corners = FALSE
    /\ NoComposer

FineForward == Return(FineFlow_forward(fine_net, args[1], args[2], args[3], args[4]))

NextFine == FineForward

SpecFine == InitFine /\ [][NextFine]_vars

\* ============================================================ properties

Finished == pc \in {"return", "raise"}

\* Every element of x lies within [-bound, bound].
Within(x, bound) == \A idx \in DOMAIN x.data : x.data[idx] >= -bound /\ x.data[idx] <= bound

\* x without the rows from `rows` on equals y.
FirstRowsEqual(x, y, rows) ==
    \A idx \in Idx(<<y.shape[1], y.shape[2], rows, y.shape[4]>>) : x.data[idx] = y.data[idx]

\* Row i of x equals row k of y, element by element.
RowEquals(x, i, y, k) ==
    \A n \in 0 .. y.shape[1] - 1, c \in 0 .. y.shape[2] - 1, j \in 0 .. y.shape[4] - 1 :
        x.data[<<n, c, i, j>>] = y.data[<<n, c, k, j>>]

PaddedShape(shape) == <<shape[1], shape[2], shape[3] + 1, shape[4]>>

\* C4 as stated: on every input with at least one row Pad67to68.forward
\* succeeds and returns a tensor of shape (N, C, H + 1, W) whose first H rows
\* are the input's.
C4_AnyHeightPads ==
    Finished =>
        /\ pc = "return"
        /\ ret.shape = PaddedShape(args[1].shape)
        /\ FirstRowsEqual(ret, args[1], args[1].shape[3])

\* C4 amended: on every input with at least two rows Pad67to68.forward
\* succeeds and returns a tensor of shape (N, C, H + 1, W) whose first H rows
\* are the input's; on an input with one row it raises.
C4_TwoRowsPad ==
    Finished =>
        IF args[1].shape[3] >= 2
        THEN /\ pc = "return"
             /\ ret.shape = PaddedShape(args[1].shape)
             /\ FirstRowsEqual(ret, args[1], args[1].shape[3])
        ELSE pc = "raise" /\ ret.at = "pad"

C4_Witness ==
    /\ pc = "return"
    /\ args[1].shape[3] = 2
    /\ ret.shape = PaddedShape(args[1].shape)
    /\ ret.data[<<0, 0, 1, 0>>] # ret.data[<<0, 0, 0, 0>>]

\* C5 as stated: the row Pad67to68.forward adds equals the input's last row.
C5_AddedRowIsLastRow ==
    pc = "return" => RowEquals(ret, args[1].shape[3], args[1], args[1].shape[3] - 1)

\* C5 amended: the row Pad67to68.forward adds (output row H) equals the
\* input's row before the last (row H - 2): the last row is the mirror and
\* is not repeated.
C5_AddedRowIsMirrored ==
    pc = "return" => RowEquals(ret, args[1].shape[3], args[1], args[1].shape[3] - 2)

C5_Witness ==
    /\ pc = "return"
    /\ args[1].shape[3] >= 3
    /\ ~RowEquals(args[1], args[1].shape[3] - 1, args[1], args[1].shape[3] - 2)
    /\ RowEquals(ret, args[1].shape[3], args[1], args[1].shape[3] - 2)

\* The flow field x is zero everywhere.
ZeroFlow(x) == \A idx \in DOMAIN x.data : x.data[idx] = 0

\* The positions of a tensor of the given shape that are not on its border.
Interior(shape) ==
    {idx \in Idx(shape) :
        idx[3] >= 1 /\ idx[3] <= shape[3] - 2 /\ idx[4] >= 1 /\ idx[4] <= shape[4] - 2}

\* C3: Warp.forward with an all-zero flow field returns the frame, but for
\* the border pixels.
C3_ZeroFlowIsIdentity ==
    (pc = "return" /\ ZeroFlow(args[2])) =>
        \A idx \in Interior(args[1].shape) : ret.data[idx] = args[1].data[idx]

\* What Warp.forward does with an all-zero flow field: every output pixel
\* of a channel is the one bilinear sample at the centre of the frame.
C3_ZeroFlowSamplesCentre ==
    (pc = "return" /\ ZeroFlow(args[2])) =>
        \A idx \in Idx(args[1].shape) : ret.data[idx] = ret.data[<<idx[1], idx[2], 0, 0>>]

\* The size the fine estimator gives an axis: halved by the stride-2
\* convolution, rounding up, then doubled by the pixel shuffle.
Even(size) == 2 * ((size + 1) \div 2)

\* The call of _FineFlow.forward is one the claim C8 covers: the frames have
\* the channels the estimator was built for.
FineChannelsMatch == args[1].shape[2] = fine_net.channel

\* C8 as stated: the concatenated input has 3C + 2 channels and the output
\* has the shape (N, 2, H, W) of the input's resolution.
C8_FineAtInputResolution ==
    (Finished /\ FineChannelsMatch) =>
        /\ Cat(args, "fine.cat").shape[2] = 3 * fine_net.channel + 2
        /\ pc = "return"
        /\ ret.shape = <<args[1].shape[1], 2, args[1].shape[3], args[1].shape[4]>>

\* C8 amended: the concatenated input has 3C + 2 channels and the output has
\* the shape (N, 2, 2 * ceil(H / 2), 2 * ceil(W / 2)), which is (N, 2, H, W)
\* exactly when H and W are even.
C8_FineAtEvenResolution ==
    (Finished /\ FineChannelsMatch) =>
        /\ Cat(args, "fine.cat").shape[2] = 3 * fine_net.channel + 2
        /\ pc = "return"
        /\ ret.shape = <<args[1].shape[1], 2, Even(args[1].shape[3]), Even(args[1].shape[4])>>

C8_Witness ==
    /\ pc = "return"
    /\ FineChannelsMatch
    /\ fine_net.channel = 2
    /\ args[1].shape[3] = 3
    /\ ret.shape[3] = 4

\* ------------------------------------------------ FlowField properties

\* The shape (N, C, H, W) of the two frames given to FlowField.forward.
FrameShape == args[1].shape

\* The flow field shape (N, 2, H, W) of the frames' resolution.
FlowShape == <<FrameShape[1], 2, FrameShape[3], FrameShape[4]>>

\* The frames FlowField.forward completes on: one channel, and a height and
\* a width that are multiples of 4.
Fits == FrameShape[2] = 1 /\ FrameShape[3] % 4 = 0 /\ FrameShape[4] % 4 = 0

\* size rounded up to a multiple of 4.
Ceil4(size) == 4 * ((size + 3) \div 4)

\* C1 as stated: on any pair of same-shaped frames FlowField.forward returns
\* a tensor of shape (N, 2, H, W).
C1_AnyFramesGiveFlow ==
    Finished => (pc = "return" /\ ret.shape = FlowShape)

\* C1 amended: on any pair of same-shaped frames with one channel and a
\* height and a width that are multiples of 4, FlowField.forward returns a
\* tensor of shape (N, 2, H, W).
C1_FittingFramesGiveFlow ==
    (Finished /\ Fits) => (pc = "return" /\ ret.shape = FlowShape)

C1_Witness ==
    /\ pc = "return"
    /\ FrameShape[3] = 8
    /\ FrameShape[4] = 4
    /\ ret.shape = FlowShape

\* C2: when FlowField.forward completes, the returned tensor is, element by
\* element, the coarse estimator's output on the two frames plus the fine
\* estimator's output on the two frames, that coarse flow and the warped
\* frame; the coarse flow added is the one given to the warp and to the fine
\* estimator.
C2_OutputIsCoarsePlusFine ==
    pc = "return" =>
        /\ coarse_flow = CoarseFlow_forward(coarse_net, args[1], args[2])
        /\ coarse_frame_tp1 = Warp_forward(args[1], coarse_flow, align_corners)
        /\ fine_flow = FineFlow_forward(fine_net, args[1], args[2], coarse_flow, coarse_frame_tp1)
        /\ calls[2].args[2] = coarse_flow
        /\ calls[3].args[3] = coarse_flow
        /\ ret.shape = coarse_flow.shape
        /\ DOMAIN ret.data = Idx(coarse_flow.shape)
        /\ \A idx \in Idx(coarse_flow.shape) :
               ret.data[idx] = coarse_flow.data[idx] + fine_flow.data[idx]

C2_Witness ==
    /\ pc = "return"
    /\ \E idx \in DOMAIN ret.data :
           /\ coarse_flow.data[idx] # 0
           /\ fine_flow.data[idx] # 0
           /\ ret.data[idx] = coarse_flow.data[idx] + fine_flow.data[idx]
    /\ \E idx \in DOMAIN ret.data : ret.data[idx] # ret.data[<<0, 0, 0, 0>>]

\* The elements of x, each with its position.
Entries(x) == {<<idx, x.data[idx]>> : idx \in DOMAIN x.data}

\* The number of the entries e that hold the value v.
Count(e, v) == Cardinality({p \in e : p[2] = v})

\* y holds the values of x, each as often as x does.
Rearranged(x, y) ==
    LET ex == Entries(x)
        ey == Entries(y)
    IN  /\ Cardinality(ex) = Cardinality(ey)
        /\ \A v \in -Scale .. Scale : Count(ex, v) = Count(ey, v)

\* C6: every element of the coarse estimator's output and of the fine
\* estimator's output lies in [-1, 1], and each output holds the values of
\* the estimator's tanh layer, rearranged by the pixel shuffle.  (Stated of
\* the end of the run: the two outputs do not change once computed.)
C6_EstimatorsWithinTanh ==
    Finished =>
        /\ coarse_flow.ok =>
               /\ Within(coarse_flow, Scale)
               /\ Rearranged(ConvStack(coarse_net, Cat(<<args[1], args[2]>>, "coarse.cat"),
                                       "coarse"),
                             coarse_flow)
        /\ fine_flow.ok =>
               /\ Within(fine_flow, Scale)
               /\ Rearranged(ConvStack(fine_net,
                                       Cat(<<args[1], args[2], coarse_flow, coarse_frame_tp1>>,
                                           "fine.cat"),
                                       "fine"),
                             fine_flow)

C6_Witness ==
    /\ Finished
    /\ coarse_flow.ok
    /\ fine_flow.ok
    /\ \E idx \in DOMAIN coarse_flow.data : coarse_flow.data[idx] = Scale
    /\ \E idx \in DOMAIN coarse_flow.data : coarse_flow.data[idx] = -1
    /\ \E idx \in DOMAIN fine_flow.data : fine_flow.data[idx] = Scale
    /\ \E idx \in DOMAIN fine_flow.data : fine_flow.data[idx] = -1

\* The flow field given to Warp inside the composer.
WarpedBy == calls[2].args[2]

\* C7 as stated: every element of the flow field FlowField.forward returns
\* and of the flow field it gives to Warp lies in [-1, 1].
C7_FlowsNormalized ==
    /\ Len(calls) >= 2 => Within(WarpedBy, Scale)
    /\ pc = "return" => Within(ret, Scale)

\* C7 amended: every element of the flow field FlowField.forward gives to
\* Warp lies in [-1, 1], and every element of the flow field it returns, the
\* sum of two fields within [-1, 1], lies in [-2, 2].
C7_FlowsBounded ==
    /\ Len(calls) >= 2 => Within(WarpedBy, Scale)
    /\ pc = "return" => Within(ret, 2 * Scale)

C7_Witness ==
    /\ pc = "return"
    /\ Within(WarpedBy, Scale)
    /\ \E idx \in DOMAIN ret.data : ret.data[idx] = 2 * Scale

\* The order of the composer's steps.
Order == <<"coarse_net", "warp", "fine_net", "add">>

\* The number of steps taken when the call is at pc.
StepsAt(at) ==
    CASE at = "call" -> {0}
      [] at = "coarse" -> {1}
      [] at = "warp" -> {2}
      [] at = "fine" -> {3}
      [] at = "return" -> {4}
      [] at = "raise" -> 1 .. 4

\* C9: the steps of FlowField.forward occur in the order coarse estimator,
\* warp, fine estimator, sum, each at most once: the coarse estimator on the
\* two frames; the warp, once the coarse flow exists, on the first frame and
\* the coarse flow; the fine estimator, once the warped frame exists, on the
\* two frames, the coarse flow and the warped frame; the padding adapter
\* never.
C9_FixedOrder ==
    /\ Len(calls) \in StepsAt(pc)
    /\ \A k \in 1 .. Len(calls) : calls[k].op = Order[k]
    /\ Len(calls) >= 1 => calls[1].args = <<args[1], args[2]>>
    /\ Len(calls) >= 2 =>
           /\ coarse_flow.ok
           /\ calls[2].args = <<args[1], coarse_flow>>
    /\ Len(calls) >= 3 =>
           /\ coarse_frame_tp1.ok
           /\ calls[3].args = <<args[1], args[2], coarse_flow, coarse_frame_tp1>>
    /\ Len(calls) >= 4 =>
           /\ fine_flow.ok
           /\ calls[4].args = <<fine_flow, coarse_flow>>

C9_Witness ==
    /\ pc = "return"
    /\ Len(calls) = 4
    /\ args[1] # args[2]
    /\ calls[2].args[1] = args[1]
    /\ calls[3].args[4] = coarse_frame_tp1

\* C10: on same-shaped frames FlowField.forward completes exactly when the
\* frames have one channel and a height and a width that are multiples of 4.
\* With another channel count it fails at the coarse estimator's first
\* convolution; with one channel and another size the coarse flow has the
\* size (4 * ceil(H / 4), 4 * ceil(W / 4)), the warp succeeds and the fine
\* estimator's concatenation fails.
C10_CompletesIffFits ==
    Finished =>
        /\ pc = "return" <=> Fits
        /\ pc = "return" => ret.ok
        /\ FrameShape[2] # 1 => (ret.at = "coarse.conv1" /\ Len(calls) = 1)
        /\ (FrameShape[2] = 1 /\ ~Fits) =>
               /\ coarse_flow.shape = <<FrameShape[1], 2, Ceil4(FrameShape[3]), Ceil4(FrameShape[4])>>
               /\ coarse_flow.shape # FlowShape
               /\ coarse_frame_tp1.ok
               /\ ret.at = "fine.cat"
               /\ Len(calls) = 3

C10_Witness ==
    /\ pc = "raise"
    /\ FrameShape[2] = 1
    /\ FrameShape[3] = 5
    /\ FrameShape[4] = 4
    /\ coarse_flow.shape = <<FrameShape[1], 2, 8, 4>>
    /\ coarse_frame_tp1.ok
    /\ ret.at = "fine.cat"

==========================================================================
